---------------------------- MODULE Spec2Model ----------------------------
(***************************************************************************)
(* Restore orchestration of the server cloner: load (index.ts), the       *)
(* restoration stages (load.ts), loadCategory / loadChannel / clearGuild  *)
(* and the retry wrapper executeWithRetry.                                 *)
(*                                                                         *)
(* JavaScript runs each synchronous segment to completion; a remote call   *)
(* is issued in one segment and completes (fulfils or rejects) in a later  *)
(* one.  An action of the model is one such segment.                       *)
(***************************************************************************)
EXTENDS Integers, Sequences, FiniteSets, TLC

VARIABLES
    call,        \* the arguments of load: guild handle, backup argument, options
    backupData,  \* the snapshot load works on, once resolved
    guild,       \* the target server as the client library's cache shows it
    pc,          \* position of load: "start", "clearing", "restoring", "settled"
    loadStatus,  \* the promise load returns: "pending", "resolved", "rejected"
    loadError,   \* the value load rejected with
    rejectedBy,  \* history: what made load reject
    retry,       \* one executeWithRetry activation per wrapped stage
    clearQueue,  \* the calls clearGuild has still to make, in order
    task,        \* the six promises given to Promise.all
    chanTasks,   \* per category / uncategorized channel task of loadChannels: finished?
    inflight,    \* remote calls issued and not yet completed
    issued,      \* every remote call issued so far
    failed,      \* the calls of the restoration stages that rejected
    nfail,       \* number of remote calls that rejected
    rw,          \* an activation of executeWithRetry on an arbitrary operation
    clampIn,     \* a channel descriptor and a server tier given to loadChannel
    clampOut     \* the create options loadChannel built from clampIn

vars == <<call, backupData, guild, pc, loadStatus, loadError, rejectedBy, retry,
          clearQueue, task, chanTasks, inflight, issued, failed, nfail,
          rw, clampIn, clampOut>>

loadVars == <<call, backupData, guild, pc, loadStatus, loadError, rejectedBy, retry,
              clearQueue, task, chanTasks, inflight, issued, failed, nfail>>

-----------------------------------------------------------------------------
(* JavaScript values of the numeric fields of a descriptor.  A number is    *)
(* the rational num/den, so that non-integers exist; NaN, undefined, null   *)
(* and numeric strings are kept apart because typeof and Number() tell them *)
(* apart.                                                                   *)

Num(n) == [t |-> "number", num |-> n, den |-> 1]
Half(n) == [t |-> "number", num |-> n, den |-> 2]
NumStr(n) == [t |-> "string", num |-> n, den |-> 1]
NaN == [t |-> "nan", num |-> 0, den |-> 1]
Undefined == [t |-> "undefined", num |-> 0, den |-> 1]
Null == [t |-> "null", num |-> 0, den |-> 1]

TypeOf(v) ==
    CASE v.t \in {"number", "nan"} -> "number"
      [] v.t = "string" -> "string"
      [] v.t = "undefined" -> "undefined"
      [] OTHER -> "object"

\* Number(v)
ToNumber(v) ==
    CASE v.t = "number" -> v
      [] v.t = "string" -> [v EXCEPT !.t = "number"]
      [] v.t = "null" -> Num(0)
      [] OTHER -> NaN

\* truthiness of a number value
Truthy(v) == v.t = "number" /\ v.num # 0

\* a || b
OrElse(a, b) == IF Truthy(a) THEN a ELSE b

\* a <= b on numbers; every comparison with NaN is false
Leq(a, b) == a.t = "number" /\ b.t = "number" /\ a.num * b.den <= b.num * a.den

MathMin(a, b) == IF a.t # "number" \/ b.t # "number" THEN NaN ELSE IF Leq(a, b) THEN a ELSE b
MathMax(a, b) == IF a.t # "number" \/ b.t # "number" THEN NaN ELSE IF Leq(a, b) THEN b ELSE a

-----------------------------------------------------------------------------
(* Constants of index.ts *)

MIN_BITRATE == 8000
DefaultMaxBitrate == 64000
DefaultRetries == 3

KnownTiers == {"NONE", "TIER_1", "TIER_2", "TIER_3"}

MaxBitratePerTier(tier) ==
    CASE tier = "NONE" -> 64000
      [] tier = "TIER_1" -> 128000
      [] tier = "TIER_2" -> 256000
      [] tier = "TIER_3" -> 384000


-----------------------------------------------------------------------------
(* loadChannel: the create options built from a channel descriptor.  The    *)
(* fields copied through unchanged (topic, nsfw) are left out.              *)

TicketNames == {"ticket-1"}

\* channelData.name.startsWith('ticket-')
StartsWithTicket(name) == name \in TicketNames

NoId == [k |-> "none", i |-> 0, j |-> 0, a |-> 0]

\* a voice descriptor as fetchVoiceChannelData writes it, a text one as
\* fetchTextChannelData does; the numeric fields hold whatever the file holds
VoiceChannelData(name, bitrate, userLimit, permissions) ==
    [type |-> "GUILD_VOICE", name |-> name, bitrate |-> bitrate, userLimit |-> userLimit,
     rateLimitPerUser |-> Undefined, permissions |-> permissions, isNews |-> FALSE]

TextChannelData(type, name, rateLimitPerUser, permissions, isNews) ==
    [type |-> type, name |-> name, bitrate |-> Undefined, userLimit |-> Undefined,
     rateLimitPerUser |-> rateLimitPerUser, permissions |-> permissions, isNews |-> isNews]

\* MaxBitratePerTier[guild.premiumTier] ?? 64000
TierCeiling(premiumTier) ==
    IF premiumTier \in KnownTiers THEN MaxBitratePerTier(premiumTier) ELSE DefaultMaxBitrate

\* the clamp with Math.min(bitrate, max) left out
ClampBitrateNoCeiling(requested, premiumTier) ==
    MathMax(Num(MIN_BITRATE), OrElse(ToNumber(requested), Num(MIN_BITRATE)))

\* Math.max(MIN_BITRATE, Math.min(Number(voice.bitrate) || MIN_BITRATE, max))
ClampBitrate(requested, premiumTier) ==
    MathMax(Num(MIN_BITRATE),
            MathMin(OrElse(ToNumber(requested), Num(MIN_BITRATE)),
                    Num(TierCeiling(premiumTier))))

\* typeof voice.userLimit === 'number' && voice.userLimit >= 0 && voice.userLimit <= 99
UserLimitAccepted(userLimit) ==
    /\ TypeOf(userLimit) = "number"
    /\ Leq(Num(0), userLimit)
    /\ Leq(userLimit, Num(99))

\* typeof text.rateLimitPerUser === 'number' && text.rateLimitPerUser >= 0
RateLimitAccepted(rateLimitPerUser) ==
    /\ TypeOf(rateLimitPerUser) = "number"
    /\ Leq(Num(0), rateLimitPerUser)

NoOptions ==
    [type |-> "none", parent |-> NoId, hasBitrate |-> FALSE, bitrate |-> Undefined,
     hasUserLimit |-> FALSE, userLimit |-> Undefined,
     hasRateLimit |-> FALSE, rateLimitPerUser |-> Undefined]

\* the options with the type of a descriptor that is not voice kept as recorded
CreateOptionsKeepType(channelData, category, premiumTier) ==
    IF channelData.type # "GUILD_VOICE"
    THEN [NoOptions EXCEPT
            !.type = channelData.type,
            !.parent = category,
            !.hasRateLimit = RateLimitAccepted(channelData.rateLimitPerUser),
            !.rateLimitPerUser = IF RateLimitAccepted(channelData.rateLimitPerUser)
                                 THEN channelData.rateLimitPerUser ELSE Undefined]
    ELSE [NoOptions EXCEPT
            !.type = "GUILD_VOICE",
            !.parent = category,
            !.hasBitrate = TRUE,
            !.bitrate = ClampBitrate(channelData.bitrate, premiumTier),
            !.hasUserLimit = UserLimitAccepted(channelData.userLimit),
            !.userLimit = IF UserLimitAccepted(channelData.userLimit)
                          THEN channelData.userLimit ELSE Undefined]

CreateOptions(channelData, category, premiumTier) ==
    IF channelData.type # "GUILD_VOICE"
    THEN [NoOptions EXCEPT
            !.type = "GUILD_TEXT",
            !.parent = category,
            !.hasRateLimit = RateLimitAccepted(channelData.rateLimitPerUser),
            !.rateLimitPerUser = IF RateLimitAccepted(channelData.rateLimitPerUser)
                                 THEN channelData.rateLimitPerUser ELSE Undefined]
    ELSE [NoOptions EXCEPT
            !.type = "GUILD_VOICE",
            !.parent = category,
            !.hasBitrate = TRUE,
            !.bitrate = ClampBitrate(channelData.bitrate, premiumTier),
            !.hasUserLimit = UserLimitAccepted(channelData.userLimit),
            !.userLimit = IF UserLimitAccepted(channelData.userLimit)
                          THEN channelData.userLimit ELSE Undefined]

-----------------------------------------------------------------------------
(* SpecClamp: loadChannel's option building applied to every descriptor of  *)
(* a bounded family and every server tier.                                  *)

BitrateInputs ==
    {Undefined, Null, NaN, Num(0), Num(-1), Num(7999), Num(8000), Half(16001), Num(8001),
     Num(64000), Num(64001), Num(96000), NumStr(96000), Num(128000), Num(128001),
     Num(256000), Num(256001), Num(384000), Num(384001), Num(999999999)}

UserLimitInputs ==
    {Undefined, Null, NaN, NumStr(50), Num(-1), Half(-1), Num(0), Half(1), Num(1),
     Num(50), Half(101), Num(99), Half(199), Num(100), Num(500)}

TierInputs == KnownTiers \cup {"TIER_4"}

ClampInit ==
    /\ clampIn \in [channelData : {VoiceChannelData("Lounge", b, u, <<>>) :
                                      b \in BitrateInputs, u \in UserLimitInputs},
                    premiumTier : TierInputs,
                    done : {FALSE}]
    /\ clampOut = NoOptions

ClampIdle ==
    /\ clampIn = [channelData |-> VoiceChannelData("Lounge", Undefined, Undefined, <<>>),
                  premiumTier |-> "NONE", done |-> TRUE]
    /\ clampOut = NoOptions

\* loadChannel up to the create call, on an uncategorized voice channel
BuildOptions ==
    /\ ~clampIn.done
    /\ clampIn' = [clampIn EXCEPT !.done = TRUE]
    /\ clampOut' = CreateOptions(clampIn.channelData, NoId, clampIn.premiumTier)
    /\ UNCHANGED <<loadVars, rw>>


-----------------------------------------------------------------------------
(* executeWithRetry.  An activation is its local state: the parameter       *)
(* retrytents2, the counter retrytents, the number of times it has called   *)
(* operation, and where it stands: "awaiting" the operation it called,      *)
(* "returned", or "thrown" with the error it threw.                         *)

NoError == [message |-> "", attempts |-> 0, cause |-> ""]

\* new Error(`A clonagem falhou apos ${retrytents2} tentativas`)
RetryError(retrytents2) ==
    [message |-> "A clonagem falhou", attempts |-> retrytents2, cause |-> ""]

IdleRetry ==
    [retrytents2 |-> DefaultRetries, retrytents |-> 0, calls |-> 0,
     status |-> "idle", error |-> NoError]

\* the loop test with <= for <
WhileTestOffByOne(r) ==
    IF r.retrytents <= r.retrytents2
    THEN [r EXCEPT !.status = "awaiting", !.calls = @ + 1]
    ELSE [r EXCEPT !.status = "thrown", !.error = RetryError(r.retrytents2)]

\* while (retrytents < retrytents2) { await operation() ... } throw new Error(...)
WhileTest(r) ==
    IF r.retrytents < r.retrytents2
    THEN [r EXCEPT !.status = "awaiting", !.calls = @ + 1]
    ELSE [r EXCEPT !.status = "thrown", !.error = RetryError(r.retrytents2)]

\* the call: let retrytents = 0, then the loop
RetryEnter(retrytents2) ==
    WhileTest([IdleRetry EXCEPT !.retrytents2 = retrytents2])

\* await operation() fulfilled: return
RetryReturn(r) == [r EXCEPT !.status = "returned"]

\* catch (error): retrytents++, then the loop test again
RetryCatch(r) == WhileTest([r EXCEPT !.retrytents = @ + 1])

-----------------------------------------------------------------------------
(* SpecRetry: executeWithRetry on an arbitrary operation, whose every call  *)
(* fulfils or fails with some cause.                                        *)

MaxAttempts == 4

Causes == {"E1", "E2"}

\* the second argument: left out (the default applies) or a count
AttemptsArgs == {Undefined} \cup {Num(n) : n \in 0..MaxAttempts}

RwIdle == rw = [arg |-> Undefined, r |-> IdleRetry, log |-> <<>>, busy |-> 0]

RwInit ==
    rw \in [arg : AttemptsArgs, r : {IdleRetry}, log : {<<>>}, busy : {0}]

\* executeWithRetry(operation, retrytents2 = 3) up to its first await or throw
RwCall ==
    /\ rw.r.status = "idle"
    /\ rw.log = <<>>
    /\ LET r == RetryEnter(IF rw.arg.t = "undefined" THEN DefaultRetries ELSE rw.arg.num)
       IN rw' = [rw EXCEPT !.r = r, !.busy = IF r.status = "awaiting" THEN 1 ELSE 0]
    /\ UNCHANGED <<loadVars, clampIn, clampOut>>

\* the operation called last fulfils
RwFulfil ==
    /\ rw.r.status = "awaiting"
    /\ rw' = [rw EXCEPT !.r = RetryReturn(rw.r), !.log = Append(@, "ok"), !.busy = 0]
    /\ UNCHANGED <<loadVars, clampIn, clampOut>>

\* the operation called last throws or rejects
RwFail ==
    /\ rw.r.status = "awaiting"
    /\ \E cause \in Causes :
          LET r == RetryCatch(rw.r)
          IN rw' = [rw EXCEPT !.r = r, !.log = Append(@, cause),
                              !.busy = IF r.status = "awaiting" THEN 1 ELSE 0]
    /\ UNCHANGED <<loadVars, clampIn, clampOut>>


-----------------------------------------------------------------------------
(* The target server and the snapshot.                                      *)

\* guild.id, which is also the id of the implicit default role
GuildId == [k |-> "guild", i |-> 0, j |-> 0, a |-> 0]

\* an object the target held before load was called; no attempt made it
OldId(kind, n) == [k |-> kind, i |-> n, j |-> 0, a |-> -1]

\* the objects load creates: a role per descriptor and stage attempt, a category,
\* a child of a category, an uncategorized channel, an emoji
RoleId(item, attempt) == [k |-> "role", i |-> item, j |-> 0, a |-> attempt]
CategoryId(item, attempt) == [k |-> "category", i |-> item, j |-> 0, a |-> attempt]
ChildId(item, sub, attempt) == [k |-> "child", i |-> item, j |-> sub, a |-> attempt]
OtherId(item, attempt) == [k |-> "other", i |-> item, j |-> 0, a |-> attempt]
EmojiId(item, attempt) == [k |-> "emoji", i |-> item, j |-> 0, a |-> attempt]

Role(id, name, managed, editable) ==
    [id |-> id, name |-> name, managed |-> managed, editable |-> editable]

Channel(id, name, type, opts) ==
    [id |-> id, name |-> name, type |-> type, opts |-> opts, overwrites |-> <<>>]

EveryoneRole == Role(GuildId, "@everyone", FALSE, FALSE)

\* a permission overwrite of a descriptor: role name, allow and deny bit masks
Perm(roleName, allow, deny) == [roleName |-> roleName, allow |-> allow, deny |-> deny]

RoleData(name, isEveryone) == [name |-> name, isEveryone |-> isEveryone]

CategoryData(name, permissions, children) ==
    [name |-> name, permissions |-> permissions, children |-> children]

EmojiData(name, url, base64) == [name |-> name, url |-> url, base64 |-> base64]

NoAfk == [present |-> FALSE, name |-> "", timeout |-> 0]
Afk(name, timeout) == [present |-> TRUE, name |-> name, timeout |-> timeout]

\* a snapshot with nothing in it; "" is an absent (falsy) field
EmptyBackup ==
    [name |-> "", iconBase64 |-> "", iconURL |-> "", splashBase64 |-> "", splashURL |-> "",
     bannerBase64 |-> "", bannerURL |-> "", verificationLevel |-> "",
     defaultMessageNotifications |-> "", explicitContentFilter |-> "",
     afk |-> NoAfk, widget |-> [enabled |-> FALSE, channel |-> ""],
     roles |-> <<>>, channels |-> [categories |-> <<>>, others |-> <<>>], emojis |-> <<>>]

\* a server with the default role only
CleanGuild ==
    [roles |-> <<EveryoneRole>>, channels |-> <<>>, emojis |-> <<>>, webhooks |-> <<>>,
     afkChannel |-> NoId, afkTimeout |-> 300, premiumTier |-> "NONE", community |-> FALSE]

-----------------------------------------------------------------------------
(* The snapshots and targets load is run on.                                *)

AdminPerm == Perm("Admin", "1024", "0")
EveryonePerm == Perm("@everyone", "0", "1024")
GonePerm == Perm("Gone", "8", "0")

\* roles and a channel tree with overwrites, onto a clean target
RoundTripBackup ==
    [EmptyBackup EXCEPT
       !.roles = <<RoleData("Admin", FALSE)>>,
       !.channels =
          [categories |->
              <<CategoryData("General", <<AdminPerm>>,
                  <<VoiceChannelData("Lounge", Num(999999999), Num(500),
                                     <<EveryonePerm, AdminPerm, GonePerm>>),
                    TextChannelData("GUILD_TEXT", "chat", Num(-1), <<AdminPerm>>, FALSE)>>)>>,
           others |-> <<TextChannelData("GUILD_NEWS", "rules", Num(5), <<AdminPerm>>, TRUE)>>]]

\* settings, AFK and widget naming a voice channel of the snapshot, onto a server
\* that already holds objects, among them a voice channel of that name
SettingsBackup ==
    [EmptyBackup EXCEPT
       !.name = "Srv",
       !.iconBase64 = "aWNvbg==",
       !.iconURL = "https://cdn/icon.png",
       !.explicitContentFilter = "ALL_MEMBERS",
       !.afk = Afk("Lounge", 60),
       !.widget = [enabled |-> TRUE, channel |-> "Lounge"],
       !.channels = [categories |-> <<>>,
                     others |-> <<VoiceChannelData("Lounge", Num(96000), Half(101), <<>>)>>]]

\* a role and emojis, with an AFK channel name that only a text channel of the
\* target bears
EmojisBackup ==
    [EmptyBackup EXCEPT
       !.afk = Afk("lobby", 60),
       !.roles = <<RoleData("@everyone", TRUE), RoleData("Mod", FALSE)>>,
       !.emojis = <<EmojiData("wave", "https://cdn/wave.png", "d2F2ZQ=="),
                    EmojiData("star", "", "c3Rhcg=="),
                    EmojiData("none", "", "")>>]

\* channels named as support tickets are, in a category and outside, one of them of
\* a type loadChannel has no branch for, and a second category
TicketsBackup ==
    [EmptyBackup EXCEPT
       !.channels =
          [categories |->
              <<CategoryData("Support", <<EveryonePerm>>,
                  <<TextChannelData("GUILD_TEXT", "ticket-1", Undefined, <<>>, FALSE),
                    TextChannelData("GUILD_STAGE_VOICE", "help", Half(3), <<EveryonePerm>>,
                                    FALSE)>>),
                CategoryData("Archive", <<>>, <<>>)>>,
           others |-> <<TextChannelData("GUILD_TEXT", "ticket-1", Num(0), <<>>, FALSE)>>]]

\* the default role and two more
RolesBackup ==
    [EmptyBackup EXCEPT
       !.roles = <<RoleData("@everyone", TRUE), RoleData("Mod", FALSE),
                   RoleData("Helper", FALSE)>>]

PopulatedGuild ==
    [CleanGuild EXCEPT
       !.roles = <<EveryoneRole, Role(OldId("role", 1), "Bot", TRUE, TRUE),
                   Role(OldId("role", 2), "Old", FALSE, TRUE),
                   Role(OldId("role", 3), "Owner", FALSE, FALSE)>>,
       !.channels = <<Channel(OldId("channel", 1), "Lounge", "GUILD_VOICE", NoOptions)>>,
       !.emojis = <<[id |-> OldId("emoji", 1), name |-> "old"]>>,
       !.webhooks = <<[id |-> OldId("webhook", 1)]>>,
       !.afkChannel = OldId("channel", 1),
       !.premiumTier = "TIER_1"]

TextOnlyGuild ==
    [CleanGuild EXCEPT
       !.channels = <<Channel(OldId("channel", 1), "lobby", "GUILD_TEXT", NoOptions)>>]

\* a server whose default role the cache does not hold
UncachedGuild == [CleanGuild EXCEPT !.roles = <<>>]

Scenarios == {"roundtrip", "settings", "emojis", "tickets", "roles", "uncached"}

ScenarioBackup(name) ==
    CASE name = "roundtrip" -> RoundTripBackup
      [] name = "settings" -> SettingsBackup
      [] name = "emojis" -> EmojisBackup
      [] name = "tickets" -> TicketsBackup
      [] name = "roles" -> RolesBackup
      [] name = "uncached" -> RolesBackup

ScenarioGuild(name) ==
    CASE name = "roundtrip" -> CleanGuild
      [] name = "settings" -> PopulatedGuild
      [] name = "emojis" -> TextOnlyGuild
      [] name = "tickets" -> CleanGuild
      [] name = "roles" -> CleanGuild
      [] name = "uncached" -> UncachedGuild

-----------------------------------------------------------------------------
(* Remote calls.  A call records the stage that makes it, the method, the   *)
(* descriptor it is for (grp, item, sub), the attempt of the stage's retry  *)
(* wrapper it belongs to, and its arguments.                                *)

Op(stage, kind) ==
    [stage |-> stage, kind |-> kind, grp |-> "", item |-> 0, sub |-> 0, attempt |-> 0,
     arg |-> "", ref |-> NoId, ow |-> <<>>, opts |-> NoOptions]

Stages == {"clear", "roles", "channels", "emojis"}
TaskNames == {"config", "roles", "channels", "afk", "emojis", "widget"}

\* the least position of a set of positions, 0 when there is none: Collection.find
\* gives the first element, in insertion order, that passes its test
First(hits) == IF hits = {} THEN 0 ELSE CHOOSE n \in hits : \A m \in hits : n <= m

\* cache.get(id)
FindById(seq, id) == First({n \in 1..Len(seq) : seq[n].id = id})

\* cache.find(x => x.name === name)
FindByName(seq, name) == First({n \in 1..Len(seq) : seq[n].name = name})

\* cache.find(ch => ch.name === name && ch.type === 'GUILD_VOICE')
FindVoiceByName(seq, name) ==
    First({n \in 1..Len(seq) : seq[n].name = name /\ seq[n].type = "GUILD_VOICE"})

\* the call a sequence of awaited calls begins with, if any
HeadOf(seq) == IF seq = <<>> THEN {} ELSE {Head(seq)}

RemoveId(seq, id) == SelectSeq(seq, LAMBDA x : x.id # id)

-----------------------------------------------------------------------------
(* clearGuild *)

\* if (!role.managed && role.editable && role.id !== guild.id)
Deletable(role) == ~role.managed /\ role.editable /\ role.id # GuildId

\* the test without role.id !== guild.id
DeletableAny(role) == ~role.managed /\ role.editable

DeleteCalls(kind, seq) ==
    [n \in 1..Len(seq) |-> [Op("clear", kind) EXCEPT !.item = n, !.ref = seq[n].id]]

\* the three loops over the caches, then guild.fetchWebhooks()
ClearCalls(g) ==
    DeleteCalls("role.delete", SelectSeq(g.roles, Deletable))
    \o DeleteCalls("channel.delete", g.channels)
    \o DeleteCalls("emoji.delete", g.emojis)
    \o <<Op("clear", "fetchWebhooks")>>

\* the ten resets that end clearGuild
Resets ==
    <<[Op("clear", "setAFKChannel") EXCEPT !.arg = "null"],
      [Op("clear", "setAFKTimeout") EXCEPT !.arg = "300"],
      [Op("clear", "setIcon") EXCEPT !.arg = "null"],
      [Op("clear", "setBanner") EXCEPT !.arg = "null"],
      [Op("clear", "setSplash") EXCEPT !.arg = "null"],
      [Op("clear", "setDefaultMessageNotifications") EXCEPT !.arg = "ONLY_MENTIONS"],
      [Op("clear", "setWidgetSettings") EXCEPT !.arg = "disabled"],
      [Op("clear", "setSystemChannel") EXCEPT !.arg = "null"],
      [Op("clear", "setVerificationLevel") EXCEPT !.arg = "NONE"],
      [Op("clear", "setExplicitContentFilter") EXCEPT !.arg = "DISABLED"]>>

\* clearGuild left when fetchWebhooks fails
AfterFetchWebhooksAborts(g, ok) ==
    IF ok THEN DeleteCalls("webhook.delete", g.webhooks) \o Resets ELSE <<>>

\* what the calls of clearGuild that follow fetchWebhooks are
AfterFetchWebhooks(g, ok) ==
    (IF ok THEN DeleteCalls("webhook.delete", g.webhooks) ELSE <<>>) \o Resets

\* the target after a call of clearGuild has succeeded
ClearEffect(g, op) ==
    CASE op.kind = "role.delete" -> [g EXCEPT !.roles = RemoveId(@, op.ref)]
      [] op.kind = "channel.delete" -> [g EXCEPT !.channels = RemoveId(@, op.ref)]
      [] op.kind = "emoji.delete" -> [g EXCEPT !.emojis = RemoveId(@, op.ref)]
      [] op.kind = "webhook.delete" -> [g EXCEPT !.webhooks = RemoveId(@, op.ref)]
      [] op.kind = "setAFKChannel" -> [g EXCEPT !.afkChannel = NoId]
      [] op.kind = "setAFKTimeout" -> [g EXCEPT !.afkTimeout = 300]
      [] OTHER -> g

-----------------------------------------------------------------------------
(* The restoration stages of load.ts: the calls each makes when invoked.    *)

ImageArg(base64, url) == IF base64 # "" THEN "base64" ELSE "url"

When(cond, op) == IF cond THEN {op} ELSE {}

\* loadConfig: one setter per recorded field, all called at once
LoadConfigOps(bd, g) ==
    When(bd.name # "", [Op("config", "setName") EXCEPT !.arg = bd.name])
    \cup When(bd.iconBase64 # "" \/ bd.iconURL # "",
              [Op("config", "setIcon") EXCEPT !.arg = ImageArg(bd.iconBase64, bd.iconURL)])
    \cup When(bd.splashBase64 # "" \/ bd.splashURL # "",
              [Op("config", "setSplash") EXCEPT !.arg = ImageArg(bd.splashBase64, bd.splashURL)])
    \cup When(bd.bannerBase64 # "" \/ bd.bannerURL # "",
              [Op("config", "setBanner") EXCEPT !.arg = ImageArg(bd.bannerBase64, bd.bannerURL)])
    \cup When(bd.verificationLevel # "",
              [Op("config", "setVerificationLevel") EXCEPT !.arg = bd.verificationLevel])
    \cup When(bd.defaultMessageNotifications # "",
              [Op("config", "setDefaultMessageNotifications") EXCEPT
                  !.arg = bd.defaultMessageNotifications])
    \cup When(bd.explicitContentFilter # "" /\ g.community,
              [Op("config", "setExplicitContentFilter") EXCEPT !.arg = bd.explicitContentFilter])

\* loadRoles with a create for the isEveryone descriptor too
LoadRolesOpsCreateAll(bd, g, attempt) ==
    {[Op("roles", "role.create") EXCEPT !.item = n, !.attempt = attempt,
                                        !.arg = bd.roles[n].name, !.ref = RoleId(n, attempt)] :
        n \in 1..Len(bd.roles)}

\* loadRoles: an edit of the default role for the isEveryone descriptor when the
\* cache holds the default role, a create for every other descriptor
LoadRolesOps(bd, g, attempt) ==
    {[Op("roles", "role.edit") EXCEPT !.item = n, !.attempt = attempt,
                                      !.arg = bd.roles[n].name, !.ref = GuildId] :
        n \in {m \in 1..Len(bd.roles) :
                 bd.roles[m].isEveryone /\ FindById(g.roles, GuildId) # 0}}
    \cup
    {[Op("roles", "role.create") EXCEPT !.item = n, !.attempt = attempt,
                                        !.arg = bd.roles[n].name, !.ref = RoleId(n, attempt)] :
        n \in {m \in 1..Len(bd.roles) : ~bd.roles[m].isEveryone}}

\* loadEmojis: one create per descriptor that has a url or a base64 encoding
LoadEmojisOps(bd, attempt) ==
    {[Op("emojis", "emojis.create") EXCEPT
         !.item = n, !.attempt = attempt, !.ref = EmojiId(n, attempt),
         !.arg = IF bd.emojis[n].url # "" THEN "url" ELSE "base64"] :
        n \in {m \in 1..Len(bd.emojis) : bd.emojis[m].url # "" \/ bd.emojis[m].base64 # ""}}

\* loadAFK with the name test alone
LoadAFKOpsAnyType(bd, g) ==
    LET n == FindByName(g.channels, bd.afk.name)
    IN IF bd.afk.present /\ n # 0
       THEN {[Op("afk", "setAFKChannel") EXCEPT !.ref = g.channels[n].id],
             [Op("afk", "setAFKTimeout") EXCEPT !.item = bd.afk.timeout]}
       ELSE {}

\* loadAFK: both calls when a voice channel of the recorded name is in the cache
LoadAFKOps(bd, g) ==
    LET n == FindVoiceByName(g.channels, bd.afk.name)
    IN IF bd.afk.present /\ n # 0
       THEN {[Op("afk", "setAFKChannel") EXCEPT !.ref = g.channels[n].id],
             [Op("afk", "setAFKTimeout") EXCEPT !.item = bd.afk.timeout]}
       ELSE {}

\* loadEmbedChannel
LoadEmbedChannelOps(bd, g) ==
    LET n == FindByName(g.channels, bd.widget.channel)
    IN IF bd.widget.channel = "" THEN {}
       ELSE {[Op("widget", "setWidgetSettings") EXCEPT
                 !.arg = IF bd.widget.enabled THEN "enabled" ELSE "disabled",
                 !.ref = IF n = 0 THEN NoId ELSE g.channels[n].id]}


-----------------------------------------------------------------------------
(* loadChannels, loadCategory and the rest of loadChannel *)

\* channelData.name.startsWith('ticket-') && configOptions2.ignoreTickets
Skipped(channelData, ignoreTickets) == StartsWithTicket(channelData.name) /\ ignoreTickets

\* the overwrites of a descriptor whose role name the cache holds, keyed by role id
ResolveOverwrites(permissions, roles) ==
    LET known == SelectSeq(permissions, LAMBDA q : FindByName(roles, q.roleName) # 0)
    IN [n \in 1..Len(known) |->
          [id |-> roles[FindByName(roles, known[n].roleName)].id,
           allow |-> known[n].allow, deny |-> known[n].deny]]

\* guild.channels.create(categoryData.name, { type: 'GUILD_CATEGORY' })
CategoryCreate(n, attempt) ==
    [Op("channels", "channels.create") EXCEPT
        !.grp = "category", !.item = n, !.attempt = attempt, !.arg = "GUILD_CATEGORY",
        !.ref = CategoryId(n, attempt)]

\* guild.channels.create(channelData.name, createOptions) of loadChannel
ChannelCreate(grp, n, sub, attempt, channelData, parent, premiumTier) ==
    [Op("channels", "channels.create") EXCEPT
        !.grp = grp, !.item = n, !.sub = sub, !.attempt = attempt,
        !.opts = CreateOptions(channelData, parent, premiumTier),
        !.arg = CreateOptions(channelData, parent, premiumTier).type,
        !.ref = IF grp = "category" THEN ChildId(n, sub, attempt) ELSE OtherId(n, attempt)]

\* channel.permissionOverwrites.set(overwrites), after the create of op has resolved
OverwritesSet(op, permissions, roles) ==
    [Op("channels", "permissionOverwrites.set") EXCEPT
        !.grp = op.grp, !.item = op.item, !.sub = op.sub, !.attempt = op.attempt,
        !.ref = op.ref, !.ow = ResolveOverwrites(permissions, roles)]

\* the descriptor a call of the Channels stage is for
DescriptorOf(bd, op) ==
    IF op.grp = "other" THEN bd.channels.others[op.item]
    ELSE IF op.sub = 0 THEN bd.channels.categories[op.item]
    ELSE bd.channels.categories[op.item].children[op.sub]

\* the next child of a category, from position sub on, that loadChannel does not skip;
\* 0 when the loop over the children ends
NextChild(children, sub, ignoreTickets) ==
    LET left == {n \in sub..Len(children) : ~Skipped(children[n], ignoreTickets)}
    IN IF left = {} THEN 0 ELSE CHOOSE n \in left : \A m \in left : n <= m

\* the tasks loadChannels hands to Promise.all
ChannelTasks(bd) ==
    {[grp |-> "category", item |-> n] : n \in 1..Len(bd.channels.categories)}
    \cup {[grp |-> "other", item |-> n] : n \in 1..Len(bd.channels.others)}

\* loadChannels: a create per category and per uncategorized channel not skipped
LoadChannelsOps(bd, g, attempt, ignoreTickets) ==
    {CategoryCreate(n, attempt) : n \in 1..Len(bd.channels.categories)}
    \cup {ChannelCreate("other", n, 0, attempt, bd.channels.others[n], NoId, g.premiumTier) :
            n \in {m \in 1..Len(bd.channels.others) :
                     ~Skipped(bd.channels.others[m], ignoreTickets)}}

\* the tasks of loadChannels that end without a call
ChannelTasksSkipped(bd, ignoreTickets) ==
    {[grp |-> "other", item |-> n] :
        n \in {m \in 1..Len(bd.channels.others) : Skipped(bd.channels.others[m], ignoreTickets)}}


-----------------------------------------------------------------------------
(* load *)

\* the number of remote calls allowed to fail in one run
MaxFailures == 3

MsgInvalidGuild == "Invalid guild"
MsgNotFound == "Nenhum backup encontrado. Crie um backup antes de tentar clonar."
MsgLoadFile == "Erro ao carregar o arquivo de backup."
MsgGeneric == "Nao foi possivel continuar a clonagem. Nenhum backup valido foi encontrado."

\* getBackupData: the identifier is not used, the one backup file is read
GetBackupData(file, scenario) ==
    CASE file = "missing" -> [ok |-> FALSE, err |-> MsgNotFound, data |-> EmptyBackup]
      [] file = "corrupt" -> [ok |-> FALSE, err |-> MsgLoadFile, data |-> EmptyBackup]
      [] OTHER -> [ok |-> TRUE, err |-> "", data |-> ScenarioBackup(scenario)]

\* the catch block of load: whatever was thrown, the same text is the rejection
LoadCatch(err) == MsgGeneric

\* clearGuild begins with guild.roles.cache.values(): given a handle that is not
\* null but has no caches (load tests !guild alone), it throws before any call
ClearThrowsAtOnce(handle) == handle = "bare"

\* clearGuild taken to be over with a reset still to make
ClearOverBeforeLastReset(rest) == Len(rest) <= 1

\* clearGuild returns when its last call is over; load was awaiting it
ClearOver(rest) == rest = <<>>

\* the option not consulted
ClearRequestedAlways(clear) == TRUE

\* options.clearGuildBeforeRestore !== false
ClearRequested(clear) == clear # "false"

\* the promise of load after the six tasks stand as t; by is the task that moved
SettleLoad(t, by) ==
    IF loadStatus # "pending" THEN <<loadStatus, loadError, rejectedBy>>
    ELSE IF \E k \in TaskNames : t[k] = "rejected" THEN <<"rejected", LoadCatch(by), by>>
    ELSE IF \A k \in TaskNames : t[k] = "fulfilled" THEN <<"resolved", "", "">>
    ELSE <<loadStatus, loadError, rejectedBy>>

\* the array handed to Promise.all: every stage is invoked, in order, in one
\* synchronous segment, so every lookup of this segment sees the target g
BeginRestoring(bd, g, rt) ==
    LET cfg == LoadConfigOps(bd, g)
        rls == LoadRolesOps(bd, g, 0)
        chn == LoadChannelsOps(bd, g, 0, call.ignoreTickets)
        afk == LoadAFKOps(bd, g)
        emo == LoadEmojisOps(bd, 0)
        wid == LoadEmbedChannelOps(bd, g)
        skipped == ChannelTasksSkipped(bd, call.ignoreTickets)
        Entered(over) == IF over THEN RetryReturn(RetryEnter(DefaultRetries))
                         ELSE RetryEnter(DefaultRetries)
        State(over) == IF over THEN "fulfilled" ELSE "pending"
        t == [k \in TaskNames |->
                CASE k = "config" -> State(cfg = {})
                  [] k = "roles" -> State(rls = {})
                  [] k = "channels" -> State(skipped = ChannelTasks(bd))
                  [] k = "afk" -> State(afk = {})
                  [] k = "emojis" -> State(emo = {})
                  [] k = "widget" -> State(wid = {})]
        new == cfg \cup rls \cup chn \cup afk \cup emo \cup wid
        s == SettleLoad(t, "")
    IN /\ pc' = "restoring"
       /\ guild' = g
       /\ retry' = [rt EXCEPT !.roles = Entered(rls = {}),
                              !.channels = Entered(skipped = ChannelTasks(bd)),
                              !.emojis = Entered(emo = {})]
       /\ task' = t
       /\ chanTasks' = skipped
       /\ inflight' = new
       /\ issued' = issued \cup new
       /\ loadStatus' = s[1]
       /\ loadError' = s[2]
       /\ rejectedBy' = s[3]

\* if (!guild) return reject("Invalid guild")
LoadInvalidGuild ==
    /\ pc = "start"
    /\ call.guild = "null"
    /\ pc' = "settled"
    /\ loadStatus' = "rejected"
    /\ loadError' = MsgInvalidGuild
    /\ rejectedBy' = "guild"
    /\ UNCHANGED <<call, backupData, guild, retry, clearQueue, task, chanTasks,
                   inflight, issued, failed, nfail, rw, clampIn, clampOut>>

\* await getBackupData(backup) rejects: the catch block rejects load
LoadBackupFails ==
    /\ pc = "start"
    /\ call.guild # "null"
    /\ call.backup = "id"
    /\ ~GetBackupData(call.file, call.scenario).ok
    /\ pc' = "settled"
    /\ loadStatus' = "rejected"
    /\ loadError' = LoadCatch(GetBackupData(call.file, call.scenario).err)
    /\ rejectedBy' = "backup-" \o call.file
    /\ UNCHANGED <<call, backupData, guild, retry, clearQueue, task, chanTasks,
                   inflight, issued, failed, nfail, rw, clampIn, clampOut>>

\* clearing begun before the snapshot has been resolved
LoadClearsBeforeBackup ==
    /\ pc = "start"
    /\ call.guild # "null"
    /\ ClearRequested(call.clear)
    /\ backupData' = ScenarioBackup(call.scenario)
    /\ pc' = "clearing"
    /\ retry' = [retry EXCEPT !.clear = RetryEnter(DefaultRetries)]
    /\ clearQueue' = ClearCalls(guild)
    /\ inflight' = {Head(ClearCalls(guild))}
    /\ issued' = {Head(ClearCalls(guild))}
    /\ UNCHANGED <<call, guild, loadStatus, loadError, rejectedBy, task, chanTasks,
                   failed, nfail, rw, clampIn, clampOut>>

\* the snapshot is at hand and clearing is asked for: executeWithRetry calls
\* clearGuild, which makes its first call
LoadClears ==
    /\ pc = "start"
    /\ call.guild # "null"
    /\ call.backup = "id" => GetBackupData(call.file, call.scenario).ok
    /\ ClearRequested(call.clear)
    /\ backupData' = ScenarioBackup(call.scenario)
    /\ pc' = "clearing"
    /\ retry' = [retry EXCEPT !.clear = RetryEnter(DefaultRetries)]
    /\ LET calls == IF ClearThrowsAtOnce(call.guild) THEN <<>> ELSE ClearCalls(guild)
       IN /\ clearQueue' = calls
          /\ inflight' = HeadOf(calls)
          /\ issued' = HeadOf(calls)
    /\ UNCHANGED <<call, guild, loadStatus, loadError, rejectedBy, task, chanTasks,
                   failed, nfail, rw, clampIn, clampOut>>

\* clearGuild throws: executeWithRetry catches and calls it again, or has used its
\* attempts up and throws, and the catch block of load rejects
ClearThrows ==
    /\ pc = "clearing"
    /\ ClearThrowsAtOnce(call.guild)
    /\ retry.clear.status = "awaiting"
    /\ LET r == RetryCatch(retry.clear)
       IN /\ retry' = [retry EXCEPT !.clear = r]
          /\ IF r.status = "thrown"
             THEN /\ pc' = "settled"
                  /\ loadStatus' = "rejected"
                  /\ loadError' = LoadCatch(r.error.message)
                  /\ rejectedBy' = "clear"
             ELSE UNCHANGED <<pc, loadStatus, loadError, rejectedBy>>
    /\ UNCHANGED <<call, backupData, guild, clearQueue, task, chanTasks, inflight, issued,
                   failed, nfail, rw, clampIn, clampOut>>

\* the snapshot is at hand and clearing is declined: straight to Promise.all
LoadRestores ==
    /\ pc = "start"
    /\ call.guild # "null"
    /\ call.backup = "id" => GetBackupData(call.file, call.scenario).ok
    /\ ~ClearRequested(call.clear)
    /\ backupData' = ScenarioBackup(call.scenario)
    /\ BeginRestoring(ScenarioBackup(call.scenario), guild, retry)
    /\ UNCHANGED <<call, clearQueue, failed, nfail, rw, clampIn, clampOut>>

\* a call of clearGuild completes; its failure is swallowed; the next call is made,
\* or clearGuild returns, executeWithRetry returns and load goes on to Promise.all
ClearStep ==
    /\ pc = "clearing"
    /\ clearQueue # <<>>
    /\ \E ok \in BOOLEAN :
          LET op == Head(clearQueue)
              g == IF ok THEN ClearEffect(guild, op) ELSE guild
              rest == IF op.kind = "fetchWebhooks" THEN AfterFetchWebhooks(guild, ok)
                      ELSE Tail(clearQueue)
          IN /\ ~ok => nfail < MaxFailures
             /\ nfail' = IF ok THEN nfail ELSE nfail + 1
             /\ clearQueue' = rest
             /\ IF ~ClearOver(rest)
                THEN /\ guild' = g
                     /\ inflight' = {Head(rest)}
                     /\ issued' = issued \cup {Head(rest)}
                     /\ UNCHANGED <<pc, retry, task, chanTasks, loadStatus, loadError,
                                    rejectedBy>>
                ELSE BeginRestoring(backupData, g, [retry EXCEPT !.clear = RetryReturn(@)])
    /\ UNCHANGED <<call, backupData, failed, rw, clampIn, clampOut>>


-----------------------------------------------------------------------------
(* Completion of the calls of the restoration stages.  The continuation of  *)
(* a call runs in the segment in which the call completes.                  *)

Fails(op) ==
    /\ nfail < MaxFailures
    /\ nfail' = nfail + 1
    /\ failed' = failed \cup {op}

Succeeds == UNCHANGED <<nfail, failed>>

\* the target after a call of a restoration stage has succeeded
RestoreEffect(g, bd, op) ==
    CASE op.kind = "role.create" ->
            [g EXCEPT !.roles = Append(@, Role(op.ref, op.arg, FALSE, TRUE))]
      [] op.kind = "role.edit" ->
            [g EXCEPT !.roles = [n \in 1..Len(@) |->
                                   IF @[n].id = op.ref THEN [@[n] EXCEPT !.name = op.arg]
                                   ELSE @[n]]]
      [] op.kind = "emojis.create" ->
            [g EXCEPT !.emojis = Append(@, [id |-> op.ref, name |-> bd.emojis[op.item].name])]
      [] op.kind = "channels.create" ->
            [g EXCEPT !.channels =
                Append(@, Channel(op.ref, DescriptorOf(bd, op).name, op.arg, op.opts))]
      [] op.kind = "permissionOverwrites.set" ->
            [g EXCEPT !.channels = [n \in 1..Len(@) |->
                                      IF @[n].id = op.ref THEN [@[n] EXCEPT !.overwrites = op.ow]
                                      ELSE @[n]]]
      [] op.stage = "afk" /\ op.kind = "setAFKChannel" -> [g EXCEPT !.afkChannel = op.ref]
      [] op.stage = "afk" /\ op.kind = "setAFKTimeout" -> [g EXCEPT !.afkTimeout = op.item]
      [] OTHER -> g

\* a stage whose promise is Promise.all of its calls, given to Promise.all of load
\* as it is: Config, AFK, Widget
PlainSettles(stage) ==
    \E op \in inflight, ok \in BOOLEAN :
       /\ op.stage = stage
       /\ IF ok THEN Succeeds ELSE Fails(op)
       /\ LET rest == {o \in inflight \ {op} : o.stage = stage}
              t == [task EXCEPT ![stage] =
                      IF @ # "pending" THEN @
                      ELSE IF ~ok THEN "rejected"
                      ELSE IF rest = {} THEN "fulfilled" ELSE @]
              s == SettleLoad(t, stage)
          IN /\ inflight' = inflight \ {op}
             /\ guild' = IF ok THEN RestoreEffect(guild, backupData, op) ELSE guild
             /\ task' = t
             /\ loadStatus' = s[1]
             /\ loadError' = s[2]
             /\ rejectedBy' = s[3]
       /\ UNCHANGED <<call, backupData, pc, retry, clearQueue, chanTasks, issued,
                      rw, clampIn, clampOut>>

ConfigSettles == PlainSettles("config")
AfkSettles == PlainSettles("afk")
WidgetSettles == PlainSettles("widget")

\* a wrapper that takes up where the failed attempt left off: the roles the target
\* holds by now are not created again
StageOpsResumed(stage, g, attempt) ==
    IF stage = "roles"
    THEN {op \in LoadRolesOps(backupData, g, attempt) :
            op.kind = "role.create" => FindByName(g.roles, op.arg) = 0}
    ELSE LoadEmojisOps(backupData, attempt)

\* the operation executeWithRetry is given for a stage: () => loadRoles(guild,
\* backupData), () => loadEmojis(guild, backupData)
StageOps(stage, g, attempt) ==
    IF stage = "roles" THEN LoadRolesOps(backupData, g, attempt)
    ELSE LoadEmojisOps(backupData, attempt)

\* a stage run by executeWithRetry whose operation is Promise.all of its calls: Roles,
\* Emojis.  The first call of the awaited attempt to fail makes the wrapper catch, and
\* call the stage again or throw; the calls of an attempt given up still complete.
RetriedSettles(stage) ==
    \E op \in inflight, ok \in BOOLEAN :
       /\ op.stage = stage
       /\ IF ok THEN Succeeds ELSE Fails(op)
       /\ LET g == IF ok THEN RestoreEffect(guild, backupData, op) ELSE guild
              r == retry[stage]
              awaited == r.status = "awaiting" /\ op.attempt = r.retrytents
              rest == {o \in inflight \ {op} : o.stage = stage /\ o.attempt = op.attempt}
              r2 == IF ~awaited THEN r
                    ELSE IF ~ok THEN RetryCatch(r)
                    ELSE IF rest = {} THEN RetryReturn(r) ELSE r
              new == IF awaited /\ ~ok /\ r2.status = "awaiting"
                     THEN StageOps(stage, g, r2.retrytents) ELSE {}
              t == [task EXCEPT ![stage] =
                      CASE r2.status = "returned" -> "fulfilled"
                        [] r2.status = "thrown" -> "rejected"
                        [] OTHER -> @]
              s == SettleLoad(t, stage)
          IN /\ inflight' = (inflight \ {op}) \cup new
             /\ issued' = issued \cup new
             /\ guild' = g
             /\ retry' = [retry EXCEPT ![stage] = r2]
             /\ task' = t
             /\ loadStatus' = s[1]
             /\ loadError' = s[2]
             /\ rejectedBy' = s[3]
       /\ UNCHANGED <<call, backupData, pc, clearQueue, chanTasks, rw, clampIn, clampOut>>

RolesSettles == RetriedSettles("roles")
EmojisSettles == RetriedSettles("emojis")

\* the task of a category going on to the children after loadCategory has thrown
ChannelNextDespiteFailure(op, ok, g) ==
    LET bd == backupData
        d == DescriptorOf(bd, op)
        nxt == IF op.grp = "category"
               THEN NextChild(bd.channels.categories[op.item].children, op.sub + 1,
                              call.ignoreTickets)
               ELSE 0
    IN IF op.kind = "channels.create" /\ ok
       THEN {OverwritesSet(op, d.permissions, g.roles)}
       ELSE IF nxt # 0
       THEN {ChannelCreate("category", op.item, nxt, op.attempt,
                           bd.channels.categories[op.item].children[nxt],
                           CategoryId(op.item, op.attempt), g.premiumTier)}
       ELSE {}

\* the task of a category left at the first call that fails
ChannelNextStopsOnFailure(op, ok, g) ==
    LET bd == backupData
        d == DescriptorOf(bd, op)
        nxt == IF op.grp = "category" /\ ok
               THEN NextChild(bd.channels.categories[op.item].children, op.sub + 1,
                              call.ignoreTickets)
               ELSE 0
    IN IF op.kind = "channels.create" /\ ok
       THEN {OverwritesSet(op, d.permissions, g.roles)}
       ELSE IF nxt # 0
       THEN {ChannelCreate("category", op.item, nxt, op.attempt,
                           bd.channels.categories[op.item].children[nxt],
                           CategoryId(op.item, op.attempt), g.premiumTier)}
       ELSE {}

\* what a task of loadChannels does once the call op is over: the overwrites of the
\* object just created, else the create of the next child, else the task ends
ChannelNext(op, ok, g) ==
    LET bd == backupData
        d == DescriptorOf(bd, op)
        nxt == IF op.grp = "category"
                  /\ ~(op.kind = "channels.create" /\ op.sub = 0 /\ ~ok)
               THEN NextChild(bd.channels.categories[op.item].children, op.sub + 1,
                              call.ignoreTickets)
               ELSE 0
    IN IF op.kind = "channels.create" /\ ok
       THEN {OverwritesSet(op, d.permissions, g.roles)}
       ELSE IF nxt # 0
       THEN {ChannelCreate("category", op.item, nxt, op.attempt,
                           bd.channels.categories[op.item].children[nxt],
                           CategoryId(op.item, op.attempt), g.premiumTier)}
       ELSE {}

\* the wrapper of loadChannels made to catch the failure of a single call
ChannelsWrapperCatches(r, ok, over) ==
    IF ~ok THEN RetryCatch(r) ELSE IF over THEN RetryReturn(r) ELSE r

\* the wrapper of loadChannels after a call of the stage is over: the try blocks of
\* loadChannels and loadChannel keep the failure, and Promise.all(tasks) resolves,
\* so that the wrapper returns, when the last task has ended
ChannelsWrapper(r, ok, over) == IF over THEN RetryReturn(r) ELSE r

\* a call of the Channels stage completes.  No failure leaves a task of loadChannels;
\* when the last task ends, loadChannels resolves and its wrapper returns.
ChannelsSettles ==
    \E op \in inflight, ok \in BOOLEAN :
       /\ op.stage = "channels"
       /\ IF ok THEN Succeeds ELSE Fails(op)
       /\ LET g == IF ok THEN RestoreEffect(guild, backupData, op) ELSE guild
              new == ChannelNext(op, ok, g)
              doneTasks == IF new = {} THEN chanTasks \cup {[grp |-> op.grp, item |-> op.item]}
                           ELSE chanTasks
              over == doneTasks = ChannelTasks(backupData)
              t == [task EXCEPT !.channels = IF over THEN "fulfilled" ELSE @]
              s == SettleLoad(t, "channels")
          IN /\ inflight' = (inflight \ {op}) \cup new
             /\ issued' = issued \cup new
             /\ guild' = g
             /\ chanTasks' = doneTasks
             /\ retry' = [retry EXCEPT !.channels = ChannelsWrapper(@, ok, over)]
             /\ task' = t
             /\ loadStatus' = s[1]
             /\ loadError' = s[2]
             /\ rejectedBy' = s[3]
       /\ UNCHANGED <<call, backupData, pc, clearQueue, rw, clampIn, clampOut>>

-----------------------------------------------------------------------------
(* The specifications *)

Call(guildArg, backup, file, clear, ignoreTickets, scenario) ==
    [guild |-> guildArg, backup |-> backup, file |-> file, clear |-> clear,
     ignoreTickets |-> ignoreTickets, scenario |-> scenario]

\* the calls of load that are run: a handle, none, or one without caches (with clearing,
\* which is where load first uses it), a snapshot given in memory or by
\* an identifier whose file is there, missing or unreadable, clearing asked for,
\* declined or left to its default
Calls ==
    {Call("ok", "object", "ok", "false", FALSE, "roundtrip"),
     Call("ok", "id", "ok", "false", TRUE, "tickets"),
     Call("ok", "object", "ok", "false", FALSE, "tickets"),
     Call("ok", "object", "ok", "true", FALSE, "settings"),
     Call("ok", "object", "ok", "undefined", FALSE, "settings"),
     Call("ok", "id", "ok", "false", FALSE, "settings"),
     Call("ok", "object", "ok", "false", FALSE, "emojis"),
     Call("ok", "object", "ok", "false", FALSE, "roles"),
     Call("ok", "object", "ok", "false", FALSE, "uncached")}
    \cup {Call("null", b, f, c, FALSE, "settings") :
            b \in {"object", "id"}, f \in {"ok", "missing"}, c \in {"true", "false"}}
    \cup {Call("ok", "id", f, c, FALSE, "settings") :
            f \in {"missing", "corrupt"}, c \in {"true", "false", "undefined"}}
    \cup {Call("bare", "object", "ok", c, FALSE, "settings") : c \in {"true", "undefined"}}

LoadStart(c) ==
    /\ call = c
    /\ backupData = EmptyBackup
    /\ guild = ScenarioGuild(c.scenario)
    /\ pc = "start"
    /\ loadStatus = "pending"
    /\ loadError = ""
    /\ rejectedBy = ""
    /\ retry = [s \in Stages |-> IdleRetry]
    /\ clearQueue = <<>>
    /\ task = [k \in TaskNames |-> "idle"]
    /\ chanTasks = {}
    /\ inflight = {}
    /\ issued = {}
    /\ failed = {}
    /\ nfail = 0

LoadInit == \E c \in Calls : LoadStart(c)

\* load is not called
LoadIdle ==
    LoadStart(Call("null", "object", "ok", "true", FALSE, "roundtrip"))

Init == LoadInit /\ RwIdle /\ ClampIdle

Next ==
    \/ LoadInvalidGuild
    \/ LoadBackupFails
    \/ LoadClears
    \/ LoadRestores
    \/ ClearThrows
    \/ ClearStep
    \/ ConfigSettles
    \/ RolesSettles
    \/ ChannelsSettles
    \/ AfkSettles
    \/ EmojisSettles
    \/ WidgetSettles

Spec == Init /\ [][Next]_vars

RetryInit == RwInit /\ LoadIdle /\ ClampIdle

RetryNext == RwCall \/ RwFulfil \/ RwFail

SpecRetry == RetryInit /\ [][RetryNext]_vars

ClampStart == ClampInit /\ LoadIdle /\ RwIdle

ClampNext == BuildOptions

SpecClamp == ClampStart /\ [][ClampNext]_vars


-----------------------------------------------------------------------------
(* Properties *)

\* the attempts an activation of the wrapper was called with
RwAttempts == IF rw.arg.t = "undefined" THEN 3 ELSE rw.arg.num

RwFailures == {n \in 1..Len(rw.log) : rw.log[n] # "ok"}

\* C1: executeWithRetry calls the operation one call at a time and never more than
\* `attempts` times (3 when the argument is left out); it throws exactly when the
\* operation has failed `attempts` times in a row, having called it `attempts` times;
\* it returns exactly when a call succeeds, and calls nothing after the first success.
C1_RetryCounts ==
    /\ rw.r.calls <= RwAttempts
    /\ rw.busy <= 1
    /\ rw.r.status = "awaiting" => rw.busy = 1 /\ rw.r.calls = Len(rw.log) + 1
    /\ rw.r.status \in {"returned", "thrown"} => rw.busy = 0 /\ rw.r.calls = Len(rw.log)
    /\ rw.r.status = "thrown" <=>
          (rw.r.status # "idle" /\ Cardinality(RwFailures) = RwAttempts)
    /\ rw.r.status = "thrown" => rw.r.calls = RwAttempts
    /\ rw.r.status = "returned" <=> (\E n \in 1..Len(rw.log) : rw.log[n] = "ok")
    /\ \A n \in 1..Len(rw.log) : rw.log[n] = "ok" => n = Len(rw.log)

\* the default of three attempts is used up by three failures
C1_Witness ==
    /\ rw.arg.t = "undefined"
    /\ rw.r.status = "thrown"
    /\ rw.r.calls = 3
    /\ Len(rw.log) = 3

DeleteKinds == {"role.delete", "channel.delete", "emoji.delete", "webhook.delete"}

\* C2: with clearGuildBeforeRestore = false no call of the clearing stage is ever
\* made: no delete of a role, channel, emoji or webhook, no webhook listing and no
\* baseline reset, and clearGuild's wrapper is never entered.
C2_NoDeletionWithoutClear ==
    call.clear = "false" =>
       /\ \A op \in issued : op.stage # "clear" /\ op.kind \notin DeleteKinds
       /\ retry.clear = IdleRetry
       /\ clearQueue = <<>>

\* clearing declined, a target that holds a channel, and a stage retried to the end
C2_Witness ==
    /\ call.clear = "false"
    /\ guild.channels # <<>>
    /\ retry.roles.status = "thrown"
    /\ loadStatus = "rejected"
    /\ issued # {}

DescriptorRoleNames == {backupData.roles[n].name : n \in 1..Len(backupData.roles)}

\* the channels of the target that came from a descriptor named name
ChannelsNamed(name, type, parent) ==
    {n \in 1..Len(guild.channels) :
        /\ guild.channels[n].name = name
        /\ guild.channels[n].type = type
        /\ guild.channels[n].opts.parent = parent}

\* channel n of the target carries the overwrite p of its descriptor
Carries(n, p) ==
    \E m \in 1..Len(guild.channels[n].overwrites), r \in 1..Len(guild.roles) :
       /\ guild.roles[r].name = p.roleName
       /\ guild.channels[n].overwrites[m] =
             [id |-> guild.roles[r].id, allow |-> p.allow, deny |-> p.deny]

\* every channel made from descriptor d carries d's overwrites on snapshot roles
CarriesAll(d, type, parent) ==
    \A n \in ChannelsNamed(d.name, type, parent) :
       \A m \in 1..Len(d.permissions) :
          d.permissions[m].roleName \in DescriptorRoleNames => Carries(n, d.permissions[m])

TypeAsCreated(d) == IF d.type = "GUILD_VOICE" THEN "GUILD_VOICE" ELSE "GUILD_TEXT"

\* C3 as claimed: once a restore onto a clean target in which no call failed has
\* resolved, the target holds one role per non-default descriptor, one category and
\* one channel per descriptor under the right parent, and every one of them carries
\* every overwrite of its descriptor that names a role of the snapshot.
C3_RoundTrip ==
    (/\ call.scenario = "roundtrip"
     /\ ~call.ignoreTickets
     /\ loadStatus = "resolved"
     /\ nfail = 0)
    =>
    /\ \A n \in 1..Len(backupData.roles) :
          ~backupData.roles[n].isEveryone =>
             Cardinality({r \in 1..Len(guild.roles) :
                            guild.roles[r].name = backupData.roles[n].name}) = 1
    /\ \A c \in 1..Len(backupData.channels.categories) :
          LET cd == backupData.channels.categories[c]
          IN /\ Cardinality(ChannelsNamed(cd.name, "GUILD_CATEGORY", NoId)) = 1
             /\ CarriesAll(cd, "GUILD_CATEGORY", NoId)
             /\ \A k \in 1..Len(cd.children) :
                   /\ Cardinality(ChannelsNamed(cd.children[k].name,
                                                TypeAsCreated(cd.children[k]),
                                                CategoryId(c, 0))) = 1
                   /\ CarriesAll(cd.children[k], TypeAsCreated(cd.children[k]),
                                 CategoryId(c, 0))
    /\ \A o \in 1..Len(backupData.channels.others) :
          LET d == backupData.channels.others[o]
          IN /\ Cardinality(ChannelsNamed(d.name, TypeAsCreated(d), NoId)) = 1
             /\ CarriesAll(d, TypeAsCreated(d), NoId)

PreconditionFails ==
    \/ call.guild = "null"
    \/ call.backup = "id" /\ call.file \in {"missing", "corrupt"}

\* C4: when the handle is null, or the identifier's file is missing or cannot be
\* loaded, load rejects and no remote call is ever made: the target is as it was.
C4_NoCallOnFailedPrecondition ==
    PreconditionFails =>
       /\ issued = {}
       /\ inflight = {}
       /\ guild = ScenarioGuild(call.scenario)
       /\ pc # "start" => loadStatus = "rejected"
       /\ pc \in {"start", "settled"}

\* a missing file, a handle, clearing asked for, and load has rejected
C4_Witness ==
    /\ call.guild = "ok"
    /\ call.backup = "id"
    /\ call.file = "missing"
    /\ call.clear = "true"
    /\ loadStatus = "rejected"
    /\ guild.channels # <<>>

\* what load rejects with when the snapshot is missing or cannot be loaded
SnapshotErrors ==
    {LoadCatch(GetBackupData(f, call.scenario).err) : f \in {"missing", "corrupt"}}

\* C5 as claimed: a missing or unreadable snapshot makes load reject, and the value
\* it then rejects with is not the value it rejects with when a stage has exhausted
\* its retry budget.
C5_SnapshotErrorDistinct ==
    /\ (pc # "start" /\ call.guild = "ok" /\ call.backup = "id"
          /\ call.file \in {"missing", "corrupt"})
       => loadStatus = "rejected" /\ loadError \in SnapshotErrors
    /\ (loadStatus = "rejected" /\ rejectedBy \in Stages
          /\ retry[rejectedBy].status = "thrown")
       => loadError \notin SnapshotErrors

\* the calls that failed are creates of one role descriptor or of one emoji descriptor
OneItemFails ==
    /\ failed # {}
    /\ nfail = Cardinality(failed)
    /\ \E kind \in {"role.create", "emojis.create"}, n \in 1..3 :
          \A op \in failed : op.kind = kind /\ op.item = n

\* C6 as claimed: when the only calls to fail are the creates of one role (or of one
\* emoji), the stage does not fail, its wrapper has caught nothing, and load does
\* not reject.
C6_ItemFailureIsolated ==
    OneItemFails =>
       /\ retry.roles.retrytents = 0
       /\ retry.emojis.retrytents = 0
       /\ task.roles # "rejected"
       /\ task.emojis # "rejected"
       /\ loadStatus # "rejected"

\* C7 as claimed: once load has settled after reaching Promise.all, no call of any
\* task is in flight and no task is unfinished.
C7_SettledMeansQuiet ==
    (pc = "restoring" /\ loadStatus # "pending") =>
       /\ inflight = {}
       /\ \A k \in TaskNames : task[k] # "pending"
       /\ chanTasks = ChannelTasks(backupData)

\* the tier ceilings as the specification lists them
Ceiling(tier) ==
    CASE tier = "NONE" -> 64000
      [] tier = "TIER_1" -> 128000
      [] tier = "TIER_2" -> 256000
      [] tier = "TIER_3" -> 384000
      [] OTHER -> 64000

\* the requested bitrate as a number, when it is one
Requested(v) == IF v.t \in {"number", "string"} THEN [v EXCEPT !.t = "number"] ELSE NaN

\* max(8000, min(r, ceiling)) read off as cases
ClampedAs(out, r, ceiling) ==
    /\ Leq(r, Num(8000)) => out = Num(8000)
    /\ (Leq(Num(8000), r) /\ Leq(r, Num(ceiling))) => out = r
    /\ Leq(Num(ceiling), r) => out = Num(ceiling)
    /\ r.t # "number" => out = Num(8000)

\* C8: the bitrate of the create options of a voice descriptor is
\* max(8000, min(requested, ceiling(tier))), 8000 when the requested value is
\* missing or zero; it lies in [8000, ceiling(tier)] and does not decrease when the
\* requested value grows.
C8_BitrateClamp ==
    clampIn.done =>
       LET tier == clampIn.premiumTier
           r == Requested(clampIn.channelData.bitrate)
       IN /\ clampOut.type = "GUILD_VOICE"
          /\ clampOut.hasBitrate
          /\ ClampedAs(clampOut.bitrate, r, Ceiling(tier))
          /\ Leq(Num(8000), clampOut.bitrate)
          /\ Leq(clampOut.bitrate, Num(Ceiling(tier)))
          /\ \A b \in BitrateInputs :
                Leq(r, Requested(b)) =>
                   Leq(clampOut.bitrate,
                       CreateOptions([clampIn.channelData EXCEPT !.bitrate = b],
                                     NoId, tier).bitrate)

\* a bitrate far above the ceiling of a server without boosts comes out as 64000
C8_Witness ==
    /\ clampIn.done
    /\ clampIn.channelData.bitrate = Num(999999999)
    /\ clampIn.premiumTier = "NONE"
    /\ clampOut.bitrate = Num(64000)

IsInteger(v) == v.t = "number" /\ v.num % v.den = 0

\* C9 as claimed: the create options hold userLimit exactly when the recorded value
\* is an integer in [0, 99], and then hold that value.
C9_UserLimitIntegerOnly ==
    clampIn.done =>
       LET u == clampIn.channelData.userLimit
       IN /\ clampOut.hasUserLimit <=> (IsInteger(u) /\ Leq(Num(0), u) /\ Leq(u, Num(99)))
          /\ clampOut.hasUserLimit => clampOut.userLimit = u
          /\ clampOut.type = "GUILD_VOICE"

AfkCalls(kind) == {op \in issued : op.stage = "afk" /\ op.kind = kind}

\* a voice channel bearing the AFK name was in the cache when loadAFK ran: the
\* restoration stages delete nothing, and the channels they add have other ids
AfkNameMatched ==
    \E n \in 1..Len(guild.channels) :
       /\ guild.channels[n].id.k = "channel"
       /\ guild.channels[n].name = backupData.afk.name
       /\ guild.channels[n].type = "GUILD_VOICE"

\* C10: setAFKChannel and setAFKTimeout of the AFK task are issued together or not
\* at all, and when no voice channel of the target bears the recorded name at the
\* time the task runs neither is issued and the task ends fulfilled.
C10_AfkTogetherOrSkipped ==
    /\ AfkCalls("setAFKChannel") = {} <=> AfkCalls("setAFKTimeout") = {}
    /\ Cardinality(AfkCalls("setAFKChannel")) <= 1
    /\ Cardinality(AfkCalls("setAFKTimeout")) <= 1
    /\ (pc = "restoring" /\ ~(backupData.afk.present /\ AfkNameMatched)) =>
          /\ AfkCalls("setAFKChannel") = {}
          /\ AfkCalls("setAFKTimeout") = {}
          /\ task.afk = "fulfilled"

\* the recorded AFK name is borne by a text channel only: the task ran, called
\* nothing and load resolved
C10_Witness ==
    /\ pc = "restoring"
    /\ backupData.afk.present
    /\ \E n \in 1..Len(guild.channels) : guild.channels[n].name = backupData.afk.name
    /\ ~AfkNameMatched
    /\ task.afk = "fulfilled"
    /\ AfkCalls("setAFKChannel") = {}
    /\ loadStatus = "resolved"

\* C11 as claimed: the error executeWithRetry throws when its attempts are used up
\* holds the cause of the last failed call of the operation.
C11_ErrorCarriesCause ==
    (rw.r.status = "thrown" /\ rw.log # <<>>) =>
       rw.r.error.cause = rw.log[Len(rw.log)]

\* C12 as claimed: whenever a call of the Channels stage is issued (a create of a
\* category or a channel, or the overwrites whose role names loadChannel has just
\* looked up), the Roles stage is over: its wrapper has returned and no role create
\* or edit is in flight.
C12_RolesBeforeChannels ==
    [][\A op \in issued' \ issued :
          op.stage = "channels" =>
             /\ retry'.roles.status = "returned"
             /\ \A o \in inflight' : o.stage # "roles"]_vars

\* the calls of the Channels stage made for category c and its children
CategoryOps(c) == {op \in issued : op.stage = "channels" /\ op.grp = "category" /\ op.item = c}

\* the creates of children of category c
ChildCreates(c) == {op \in CategoryOps(c) : op.kind = "channels.create" /\ op.sub > 0}

\* the children of category c that loadChannel does not skip
ChildrenToCreate(c) ==
    {k \in 1..Len(backupData.channels.categories[c].children) :
        ~Skipped(backupData.channels.categories[c].children[k], call.ignoreTickets)}

\* C13: the create of a child is issued only once the create of its category has
\* succeeded, and names that category as parent; the calls made for one category and
\* its children are in flight one at a time and the children are created in snapshot
\* order; when the create of a category has failed, no child of it is created.
C13_CategoriesBeforeChildren ==
    \A c \in 1..Len(backupData.channels.categories) :
       /\ Cardinality(CategoryOps(c) \cap inflight) <= 1
       /\ CategoryCreate(c, 0) \in failed => ChildCreates(c) = {}
       /\ \A op \in ChildCreates(c) :
             /\ CategoryCreate(c, op.attempt) \in issued \ (inflight \cup failed)
             /\ FindById(guild.channels, CategoryId(c, op.attempt)) # 0
             /\ op.opts.parent = CategoryId(c, op.attempt)
             /\ op.ref = ChildId(c, op.sub, op.attempt)
             /\ \A k \in ChildrenToCreate(c) :
                   k < op.sub => \E o \in ChildCreates(c) \ inflight : o.sub = k

\* the second child of a category is being created under it while a call for another
\* category and the create of an uncategorized channel are in flight
C13_Witness ==
    /\ \E op \in ChildCreates(1) \cap inflight :
          op.sub = 2 /\ op.opts.parent = CategoryId(1, 0)
    /\ CategoryOps(2) \cap inflight # {}
    /\ \E o \in inflight : o.stage = "channels" /\ o.grp = "other"

\* no call of the Channels stage is in flight
ChannelsQuiet == pc = "restoring" /\ \A op \in inflight : op.stage # "channels"

\* the create of an uncategorized channel, of a child
CreatedOther(n) ==
    \E op \in issued : op.kind = "channels.create" /\ op.grp = "other" /\ op.item = n

CreatedChild(c, k) == \E op \in ChildCreates(c) : op.sub = k

\* C14: whatever calls of the Channels stage fail, every category and every
\* uncategorized channel (not skipped as a ticket) receives its create call when the
\* stage starts, and once the stage has nothing in flight every child (not skipped)
\* of a category whose own create did not fail has received its create call.
C14_ChannelFailureIsolated ==
    /\ pc = "restoring" =>
          /\ \A c \in 1..Len(backupData.channels.categories) :
                CategoryCreate(c, 0) \in issued
          /\ \A n \in 1..Len(backupData.channels.others) :
                ~Skipped(backupData.channels.others[n], call.ignoreTickets) => CreatedOther(n)
    /\ ChannelsQuiet =>
          \A c \in 1..Len(backupData.channels.categories) :
             CategoryCreate(c, 0) \notin failed =>
                \A k \in ChildrenToCreate(c) : CreatedChild(c, k)

\* the create of the first child of a category and the overwrites of the category
\* have failed, and the second child has received its create call
C14_Witness ==
    /\ \E op \in failed : op.kind = "channels.create" /\ op.grp = "category"
                           /\ op.item = 1 /\ op.sub = 1
    /\ \E op \in failed : op.kind = "permissionOverwrites.set" /\ op.grp = "category"
                           /\ op.item = 1 /\ op.sub = 0
    /\ CreatedChild(1, 2)

\* load was given a Guild and clearing was asked for
Clearing == call.guild = "ok" /\ ClearRequested(call.clear)

\* the target as it was when load was called
Before == ScenarioGuild(call.scenario)

DeleteIssued(kind, id) ==
    \E op \in issued : op.stage = "clear" /\ op.kind = kind /\ op.ref = id

TenResets ==
    {"setAFKChannel", "setAFKTimeout", "setIcon", "setBanner", "setSplash",
     "setDefaultMessageNotifications", "setWidgetSettings", "setSystemChannel",
     "setVerificationLevel", "setExplicitContentFilter"}

\* C15: whichever deletes and resets fail, clearGuild is never stuck and never
\* throws: its wrapper returns from its first call, and by then a delete has been
\* issued for every channel and every emoji the target held and each of the ten
\* baseline resets has been issued.
C15_ClearingBestEffort ==
    Clearing =>
       /\ retry.clear.status # "thrown"
       /\ retry.clear.retrytents = 0
       /\ pc = "clearing" => clearQueue # <<>> /\ inflight = {Head(clearQueue)}
       /\ pc = "restoring" =>
             /\ retry.clear.status = "returned"
             /\ retry.clear.calls = 1
             /\ \A n \in 1..Len(Before.channels) :
                   DeleteIssued("channel.delete", Before.channels[n].id)
             /\ \A n \in 1..Len(Before.emojis) :
                   DeleteIssued("emoji.delete", Before.emojis[n].id)
             /\ \A kind \in TenResets :
                   \E op \in issued : op.stage = "clear" /\ op.kind = kind

\* clearing is over though the delete of a channel, the listing of the webhooks and
\* the reset of the AFK channel have failed
C15_Witness ==
    /\ Clearing
    /\ pc = "restoring"
    /\ nfail >= 3
    /\ FindById(guild.channels, OldId("channel", 1)) # 0
    /\ guild.webhooks # <<>>
    /\ ~DeleteIssued("webhook.delete", OldId("webhook", 1))
    /\ guild.afkChannel = OldId("channel", 1)

\* C16 as claimed: once clearing is over, a role of the target has received a delete
\* call exactly when it is neither managed nor the default role.
C16_RoleDeletedIff ==
    (Clearing /\ pc = "restoring") =>
       \A n \in 1..Len(Before.roles) :
          DeleteIssued("role.delete", Before.roles[n].id)
             <=> (~Before.roles[n].managed /\ Before.roles[n].id # GuildId)

\* the calls of the six restoration tasks
RestoreOps == {op \in issued : op.stage # "clear"}

\* C17: with clearing asked for, a call of a restoration task is issued only once
\* clearGuild has made and finished its last call and its wrapper has returned; the
\* deletes of clearing name objects the target held before load was called; and when
\* the wrapper of clearGuild has used its attempts up, load has rejected and no
\* restoration call is ever issued.
C17_ClearingPrecedesRestoring ==
    (call.guild # "null" /\ ClearRequested(call.clear)) =>
       /\ (RestoreOps # {} \/ pc = "restoring") =>
             /\ retry.clear.status = "returned"
             /\ clearQueue = <<>>
             /\ \A op \in inflight : op.stage # "clear"
       /\ \A op \in issued : op.kind \in DeleteKinds => op.stage = "clear" /\ op.ref.a = -1
       /\ retry.clear.status = "thrown" =>
             /\ loadStatus = "rejected"
             /\ pc = "settled"
             /\ RestoreOps = {}
             /\ \A k \in TaskNames : task[k] = "idle"

\* after clearing, the restoration has recreated the voice channel whose namesake
\* clearing deleted
C17_Witness ==
    /\ Clearing
    /\ pc = "restoring"
    /\ DeleteIssued("channel.delete", OldId("channel", 1))
    /\ FindById(guild.channels, OldId("channel", 1)) = 0
    /\ FindById(guild.channels, OtherId(1, 0)) # 0

\* C18 as claimed: the create of an emoji whose descriptor holds an embedded encoding
\* is made from that encoding, and from the URL only when there is none; each
\* descriptor that holds either gets one create in each attempt of the stage.
C18_EmbeddedEncodingPreferred ==
    /\ \A op \in issued :
          op.kind = "emojis.create" =>
             /\ backupData.emojis[op.item].base64 # "" => op.arg = "base64"
             /\ op.arg = "url" => backupData.emojis[op.item].base64 = ""
    /\ pc = "restoring" =>
          \A n \in 1..Len(backupData.emojis), a \in 0..(retry.emojis.calls - 1) :
             (backupData.emojis[n].base64 # "" \/ backupData.emojis[n].url # "") =>
                Cardinality({op \in issued : op.kind = "emojis.create" /\ op.item = n
                                              /\ op.attempt = a}) = 1

\* the creates issued for role descriptor n
RoleCreates(n) == {op \in issued : op.kind = "role.create" /\ op.item = n}

NonDefaultRoles == {n \in 1..Len(backupData.roles) : ~backupData.roles[n].isEveryone}
DefaultRoles == {n \in 1..Len(backupData.roles) : backupData.roles[n].isEveryone}

\* the attempts of the Roles stage begun so far
RolesAttempts == 0..(retry.roles.calls - 1)

\* C19: each attempt of the Roles stage issues a create for every non-default role
\* descriptor, whether or not an earlier attempt created it; an attempt after the
\* first is begun only once a call of the attempt before it has failed; a descriptor
\* gets between one and three creates over a restore, one for each attempt, and more
\* than one only when the wrapper has caught a failure.
C19_WholeStageRetried ==
    pc = "restoring" =>
       /\ retry.roles.calls \in 1..3
       /\ retry.roles.calls = IF retry.roles.status = "thrown" THEN retry.roles.retrytents
                               ELSE retry.roles.retrytents + 1
       /\ \A n \in NonDefaultRoles :
             /\ {op.attempt : op \in RoleCreates(n)} = RolesAttempts
             /\ Cardinality(RoleCreates(n)) = retry.roles.calls
             /\ Cardinality(RoleCreates(n)) > 1 => retry.roles.retrytents > 0
             /\ \A op \in RoleCreates(n) :
                   op.attempt > 0 =>
                      \E f \in failed : f.stage = "roles" /\ f.attempt = op.attempt - 1

\* a role was created in an attempt that failed and created again in the next: the
\* target holds it twice
C19_Witness ==
    /\ FindById(guild.roles, RoleId(2, 0)) # 0
    /\ FindById(guild.roles, RoleId(2, 1)) # 0
    /\ retry.roles.retrytents = 1
    /\ \E f \in failed : f.kind = "role.create" /\ f.item = 3 /\ f.attempt = 0

\* the default role is in the cache of the target
DefaultRoleCached == FindById(Before.roles, GuildId) # 0

\* C20: a create is never issued for the descriptor flagged as the default role: each
\* attempt of the stage issues for it one edit of the target's default role, carrying
\* the descriptor's name, or nothing when the cache does not hold that role; the
\* default role stays the one role with the server's id; every other descriptor gets
\* exactly one create in each attempt.
C20_DefaultRoleEdited ==
    /\ \A op \in issued :
          /\ op.kind = "role.create" =>
                ~backupData.roles[op.item].isEveryone /\ op.ref # GuildId
          /\ op.kind = "role.edit" =>
                /\ backupData.roles[op.item].isEveryone
                /\ op.ref = GuildId
                /\ op.arg = backupData.roles[op.item].name
                /\ DefaultRoleCached
    /\ Cardinality({n \in 1..Len(guild.roles) : guild.roles[n].id = GuildId})
          = IF DefaultRoleCached THEN 1 ELSE 0
    /\ pc = "restoring" =>
          \A a \in RolesAttempts :
             /\ \A n \in DefaultRoles :
                   Cardinality({op \in issued : op.stage = "roles" /\ op.item = n
                                                 /\ op.attempt = a})
                      = IF DefaultRoleCached THEN 1 ELSE 0
             /\ \A n \in NonDefaultRoles :
                   Cardinality({op \in issued : op.stage = "roles" /\ op.item = n
                                                 /\ op.attempt = a}) = 1

\* the edit of the default role and the creates of the two other roles have
\* succeeded: the target holds three roles, the default one among them
C20_Witness ==
    /\ call.scenario = "roles"
    /\ task.roles = "fulfilled"
    /\ \E op \in issued \ (inflight \cup failed) : op.kind = "role.edit" /\ op.ref = GuildId
    /\ Len(guild.roles) = 3
    /\ FindById(guild.roles, GuildId) # 0

\* the creates loadChannel has issued: those of children and of uncategorized channels
ChannelCreates ==
    {op \in issued : op.kind = "channels.create" /\ (op.grp = "other" \/ op.sub > 0)}

\* C21: every create loadChannel issues has type GUILD_TEXT or GUILD_VOICE: it is
\* GUILD_VOICE exactly when the descriptor's type is GUILD_VOICE, and GUILD_TEXT for
\* every other descriptor, whatever type it records and whether or not it is flagged
\* isNews; no create of restore (those of categories included) has an announcement
\* type, and the channels the target gains have the type they were created with.
C21_TextOrVoiceOnly ==
    /\ \A op \in ChannelCreates :
          LET d == DescriptorOf(backupData, op)
          IN /\ op.opts.type \in {"GUILD_TEXT", "GUILD_VOICE"}
             /\ op.arg = op.opts.type
             /\ op.opts.type = "GUILD_VOICE" <=> d.type = "GUILD_VOICE"
             /\ (d.type # "GUILD_VOICE" \/ d.isNews) => op.opts.type = "GUILD_TEXT"
    /\ \A op \in issued : op.kind = "channels.create" => op.arg # "GUILD_NEWS"
    /\ \A n \in 1..Len(guild.channels) :
          guild.channels[n].id.k \in {"child", "other"} =>
             guild.channels[n].type \in {"GUILD_TEXT", "GUILD_VOICE"}

\* the descriptor recorded as an announcement channel and flagged isNews has been
\* created, as a text channel
C21_Witness ==
    /\ call.scenario = "roundtrip"
    /\ pc = "restoring"
    /\ backupData.channels.others[1].type = "GUILD_NEWS"
    /\ backupData.channels.others[1].isNews
    /\ FindById(guild.channels, OtherId(1, 0)) # 0
    /\ guild.channels[FindById(guild.channels, OtherId(1, 0))].type = "GUILD_TEXT"
    /\ guild.channels[FindById(guild.channels, OtherId(1, 0))].name = "rules"

\* the creates issued for one descriptor of the Channels stage
CreatesFor(grp, item, sub) ==
    {op \in issued : op.kind = "channels.create" /\ op.grp = grp /\ op.item = item
                      /\ op.sub = sub}

\* C22: whichever calls fail, loadChannels does not throw: its wrapper catches
\* nothing, calls it once and never throws, the Channels task is never rejected and
\* ends fulfilled once no call of the stage is in flight; every call of the stage
\* belongs to that one run, and no category or channel descriptor gets more than
\* one create.
C22_ChannelsStageNeverFails ==
    /\ retry.channels.retrytents = 0
    /\ retry.channels.status # "thrown"
    /\ retry.channels.calls <= 1
    /\ task.channels # "rejected"
    /\ rejectedBy # "channels"
    /\ pc = "restoring" => retry.channels.calls = 1
    /\ ChannelsQuiet => task.channels = "fulfilled" /\ retry.channels.status = "returned"
    /\ \A op \in issued : op.stage = "channels" => op.attempt = 0
    /\ \A op \in issued :
          op.kind = "channels.create" =>
             Cardinality(CreatesFor(op.grp, op.item, op.sub)) = 1

\* the creates of a category, of an uncategorized channel and a third call of the
\* stage have failed, and the stage has ended fulfilled after one run
C22_Witness ==
    /\ Cardinality({f \in failed : f.stage = "channels"}) >= 3
    /\ \E f \in failed : f.kind = "channels.create" /\ f.grp = "category" /\ f.sub = 0
    /\ \E f \in failed : f.kind = "channels.create" /\ f.grp = "other"
    /\ task.channels = "fulfilled"
    /\ retry.channels.status = "returned"
    /\ retry.channels.calls = 1

\* the voice descriptors of the snapshot bear the recorded AFK name
AfkNamesSnapshotVoice ==
    /\ backupData.afk.present
    /\ \/ \E n \in 1..Len(backupData.channels.others) :
             /\ backupData.channels.others[n].type = "GUILD_VOICE"
             /\ backupData.channels.others[n].name = backupData.afk.name
       \/ \E c \in 1..Len(backupData.channels.categories) :
             \E k \in 1..Len(backupData.channels.categories[c].children) :
                /\ backupData.channels.categories[c].children[k].type = "GUILD_VOICE"
                /\ backupData.channels.categories[c].children[k].name = backupData.afk.name

\* the AFK channel of the target is a voice channel of the recorded name that this
\* restore created
AfkIsRecreated ==
    \E n \in 1..Len(guild.channels) :
       /\ guild.channels[n].id = guild.afkChannel
       /\ guild.channels[n].id.k \in {"child", "other"}
       /\ guild.channels[n].type = "GUILD_VOICE"
       /\ guild.channels[n].name = backupData.afk.name

\* C23 as claimed: when the recorded AFK name is that of a voice channel of the
\* snapshot, clearing is asked for and no call fails, then once load has resolved the
\* AFK channel of the target is the recreated voice channel of that name and the AFK
\* timeout is the recorded one.
C23_AfkRestoredAfterClearing ==
    (/\ Clearing
     /\ loadStatus = "resolved"
     /\ nfail = 0
     /\ AfkNamesSnapshotVoice)
    => (AfkIsRecreated /\ guild.afkTimeout = backupData.afk.timeout)

=============================================================================
